---------------------------- MODULE Spec2Model ----------------------------
(***************************************************************************)
(* Model of src/app.py: the websocket relay between a browser client and   *)
(* an Ollama chat endpoint.  One websocket_endpoint coroutine runs per     *)
(* connection; all coroutines share the process-wide dict local_memory.    *)
(* The asyncio event loop is single threaded, so every action below is the *)
(* code between two awaits that can suspend the coroutine.                 *)
(* The App component of the page the server delivers (lines 239-386) is    *)
(* modelled by the variable client and by one action per event handler.    *)
(*                                                                         *)
(* A text is a sequence of symbols (characters; the fallback phrase and    *)
(* the prompts are kept as one symbol each, no code looks inside them).    *)
(***************************************************************************)
EXTENDS Integers, Sequences, FiniteSets, TLC

(***************************************************************************)
(* Bounds of the model.                                                    *)
(***************************************************************************)
MaxConns == 2       \* connections accepted over the whole run (Spec)
MaxTurns == 2       \* non-blank utterances received over the whole run (Spec)
MaxTokens == 2      \* content tokens read from response streams over the whole run (Spec)
MaxInbox == 1       \* utterances queued on a socket, not yet received
MaxLongTurns == 8   \* utterances received over the whole run (SpecLong)
MaxTagTokens == 3   \* content tokens read from response streams (SpecTag)

(***************************************************************************)
(* Program constants.                                                      *)
(***************************************************************************)
WindowLimit == 13   \* if len(history) > 13
KeepLast == 12      \* history[-12:]

\* The values id(websocket) takes in the model: the addresses of the
\* websocket objects.
Addr == {1, 2}

\* BUSINESS_PROMPTS: the catalog of base prompts, keyed by business id.
BUSINESS_PROMPTS ==
    [real_estate |-> <<"You are Sarah">>,
     dentist     |-> <<"You are Jessica">>,
     marketing   |-> <<"You are Alex">>]

\* BUSINESS_PROMPTS.get(business_id, BUSINESS_PROMPTS["real_estate"])
base_prompt(business_id) ==
    IF business_id \in DOMAIN BUSINESS_PROMPTS
    THEN BUSINESS_PROMPTS[business_id]
    ELSE BUSINESS_PROMPTS["real_estate"]

\* f"{base_prompt} CRITICAL INSTRUCTIONS FOR AUDIO CONVERSATION: ..."
system_instruction(business_id) ==
    base_prompt(business_id) \o <<" ", "CRITICAL INSTRUCTIONS">>

\* The fallback phrase of the except handler.
err == <<"I'm losing signal for a second, say that again?">>

\* A {role, content} entry of a message list.
Message(role, content) == [role |-> role, content |-> content]

\* session_id = str(id(websocket))
session_id(a) == ToString(a)

(***************************************************************************)
(* str.strip(): drop leading and trailing whitespace.                      *)
(***************************************************************************)
Whitespace == {" ", "\t", "\n"}

RECURSIVE lstrip(_)
lstrip(s) ==
    IF s = <<>> THEN <<>>
    ELSE IF Head(s) \in Whitespace THEN lstrip(Tail(s)) ELSE s

RECURSIVE rstrip(_)
rstrip(s) ==
    IF s = <<>> THEN <<>>
    ELSE IF s[Len(s)] \in Whitespace THEN rstrip(SubSeq(s, 1, Len(s) - 1)) ELSE s

\* strip that strips nothing: the test "if not data" instead of
\* "if not data.strip()".
strip_nothing(s) == s

strip(s) == rstrip(lstrip(s))

(***************************************************************************)
(* 4. MEMORY                                                               *)
(***************************************************************************)
get_chat_history(mem, sid) ==
    IF sid \in DOMAIN mem THEN mem[sid] ELSE <<>>

\* history[-12:] of a list of more than 12 entries
LastEntries(h, n) == SubSeq(h, Len(h) - n + 1, Len(h))

\* Truncate without the pinned first entry: history[-13:] alone.
Truncate_unpinned(h) ==
    IF Len(h) > WindowLimit THEN LastEntries(h, KeepLast + 1) ELSE h

\* Truncate with the slice one entry too long: history[-13:].
Truncate_slice13(h) ==
    IF Len(h) > WindowLimit THEN <<h[1]>> \o LastEntries(h, KeepLast + 1) ELSE h

Truncate(h) ==
    IF Len(h) > WindowLimit THEN <<h[1]>> \o LastEntries(h, KeepLast) ELSE h

update_chat_history(mem, sid, new_messages) ==
    LET history == Truncate(get_chat_history(mem, sid) \o new_messages)
    IN  [s \in (DOMAIN mem) \cup {sid} |-> IF s = sid THEN history ELSE mem[s]]

\* del local_memory[session_id], guarded by "if session_id in local_memory"
delete_session(mem, sid) ==
    [s \in (DOMAIN mem) \ {sid} |-> mem[s]]

(***************************************************************************)
(* The lines of a response stream.  json.loads raises on a line that is    *)
(* not JSON; a JSON line may carry a message content and a done flag.      *)
(***************************************************************************)
EmptyLine == [kind |-> "empty"]
BadLine == [kind |-> "bad"]
\* {"message": {"content": word}, "done": done}
TokenLine(word, done) == [kind |-> "json", message |-> TRUE, content |-> word, done |-> done]
\* a JSON object without message.content, such as {"done": true} or {"error": "..."}
PlainLine(done) == [kind |-> "json", message |-> FALSE, content |-> <<>>, done |-> done]

\* "message" in chunk and "content" in chunk["message"]
has_content(chunk) == chunk.kind = "json" /\ chunk.message

(***************************************************************************)
(* websocket.send_json: it succeeds on an open socket; once the client is  *)
(* gone a send may still be accepted or raise, and after one send has      *)
(* raised every later one raises.                                          *)
(***************************************************************************)
SendOutcomes(s) ==
    CASE s = "open"   -> {"ok"}
      [] s = "gone"   -> {"ok", "raise"}
      [] s = "broken" -> {"raise"}

\* The exception a raising send_json raises: the first failure on a socket
\* surfaces as WebSocketDisconnect or as a RuntimeError, depending on where
\* the server notices; a send on a socket already marked disconnected raises
\* RuntimeError.
SendExceptions(s, o) ==
    IF o = "error" THEN {"UnicodeEncodeError"}
    ELSE IF s = "gone" THEN {"WebSocketDisconnect", "RuntimeError"} ELSE {"RuntimeError"}

\* A lone surrogate code unit, which json.loads yields for an escape such as
\* "\\ud83d" and which no websocket text frame can carry.
LoneSurrogate == "U+D83D"

\* The JSON text of a message holding text can be encoded as UTF-8.
Encodable(text) == \A i \in 1..Len(text) : text[i] # LoneSurrogate

\* send_json of a message holding text on a socket in state s: a text that
\* cannot be encoded raises UnicodeEncodeError ("error") and leaves the
\* socket as it was.
SendResults(s, text) ==
    IF Encodable(text)
    THEN SendOutcomes(s)
    ELSE (SendOutcomes(s) \ {"ok"}) \cup (IF s = "broken" THEN {} ELSE {"error"})

\* ChunkMsg with every message flagged as the final one.
ChunkMsg_final(word) == [type |-> "end", full_text |-> word]

ChunkMsg(word) == [type |-> "chunk", content |-> word]
EndMsg(text) == [type |-> "end", full_text |-> text]

NoExc == [from |-> "none", type |-> "none"]

VARIABLES
    local_memory,   \* the dict: session id -> list of messages
    pc,             \* per address: where the connection's coroutine is
    sock,           \* per address: "open", "gone" (client left), "broken"
    biz,            \* per address: the biz query parameter
    inbox,          \* per address: client messages not yet received
    user_text,      \* per address: stream_conversation's user_text
    full_resp,      \* per address: stream_conversation's full_resp
    request,        \* per address: messages of the turn's outbound request
    streamed,       \* per address: content tokens read from the stream this turn
    sent,           \* per address: messages sent to the client this turn
    flags,          \* per address: what happened in this turn
    raised,         \* per address: the exception that ended websocket_endpoint
    nconns,         \* connections accepted so far
    nturns,         \* non-blank utterances received so far
    ntokens,        \* content tokens read from response streams so far
    client          \* the state of the App component in the browser

vars == <<local_memory, pc, sock, biz, inbox, user_text, full_resp, request,
          streamed, sent, flags, raised, nconns, nturns, ntokens, client>>

\* What is recorded of a turn: whether the outbound call raised, whether a
\* line was malformed, whether the stream loop was left normally, how many
\* outbound requests were issued, whether it is the connection's first turn,
\* the history stored for the session when the turn began, and whether a
\* blank message was received since.
NoFlags == [failed |-> FALSE, malformed |-> FALSE, completed |-> FALSE,
            attempts |-> 0, first |-> FALSE, before |-> <<>>, ignored |-> FALSE]

Live(a) == pc[a] \notin {"free", "closed"}

\* A SpeechRecognition object: the aiState its handlers closed over when
\* the effect created it, and whether it is "off", "on" or "stopping"
\* (stop() was called, its end event is still to come).
SpeechRecognition(aiState) == [aiState |-> aiState, state |-> "off"]

NoTimer == [armed |-> FALSE, text |-> <<>>]

\* function App() after its first render and its effects (lines 240-321):
\* the state, the refs, and what of the message stream of the turn the
\* message handler has seen.  "running" holds the recognition objects that
\* were started and are no longer recognition.current.
App ==
    [aiState |-> "idle",
     isConversationActive |-> FALSE,
     recognition |-> SpeechRecognition("idle"),
     running |-> {},
     silenceTimer |-> NoTimer,
     speaking |-> "no",
     turn |-> 0,
     seen |-> 0]

Init ==
    /\ local_memory = [s \in {} |-> <<>>]
    /\ pc = [a \in Addr |-> "free"]
    /\ sock = [a \in Addr |-> "open"]
    /\ biz = [a \in Addr |-> "real_estate"]
    /\ inbox = [a \in Addr |-> <<>>]
    /\ user_text = [a \in Addr |-> <<>>]
    /\ full_resp = [a \in Addr |-> <<>>]
    /\ request = [a \in Addr |-> <<>>]
    /\ streamed = [a \in Addr |-> <<>>]
    /\ sent = [a \in Addr |-> <<>>]
    /\ flags = [a \in Addr |-> NoFlags]
    /\ raised = [a \in Addr |-> NoExc]
    /\ nconns = 0
    /\ nturns = 0
    /\ ntokens = 0
    /\ client = App

(***************************************************************************)
(* The client side of a socket.                                            *)
(***************************************************************************)
\* The browser sends an utterance: ws.current.send(text).
ClientSend(a, text) ==
    /\ Live(a)
    /\ sock[a] = "open"
    /\ inbox' = [inbox EXCEPT ![a] = Append(@, text)]
    /\ UNCHANGED <<local_memory, pc, sock, biz, user_text, full_resp, request,
                   streamed, sent, flags, raised, nconns, nturns, ntokens,
                   client>>

\* The browser closes the socket (or goes away).
ClientDisconnect(a) ==
    /\ Live(a)
    /\ sock[a] = "open"
    /\ sock' = [sock EXCEPT ![a] = "gone"]
    /\ UNCHANGED <<local_memory, pc, biz, inbox, user_text, full_resp, request,
                   streamed, sent, flags, raised, nconns, nturns, ntokens,
                   client>>

\* The least index i >= from with text[i] = c, or 0 when there is none.
FirstIndex(text, c, from) ==
    LET S == {i \in from..Len(text) : text[i] = c}
    IN  IF S = {} THEN 0 ELSE CHOOSE i \in S : \A j \in S : i <= j

\* fullText.replace(/\[.*?\]/g, ''): every span from a "[" to the nearest
\* "]" after it on the same line is removed, from left to right.
RECURSIVE RemoveLanguageTags(_)
RemoveLanguageTags(text) ==
    LET i == FirstIndex(text, "[", 1)
        j == FirstIndex(text, "]", i + 1)
        nl == FirstIndex(text, "\n", i + 1)
    IN  IF i = 0 \/ j = 0 THEN text
        ELSE IF nl # 0 /\ nl < j
        THEN SubSeq(text, 1, nl) \o RemoveLanguageTags(SubSeq(text, nl + 1, Len(text)))
        ELSE SubSeq(text, 1, i - 1) \o RemoveLanguageTags(SubSeq(text, j + 1, Len(text)))

\* String.prototype.trim
trim(text) == rstrip(lstrip(text))

\* The text speakResponse hands to the speech synthesis (line 341); nothing
\* is spoken when it is empty (line 344).
textToSpeak(fullText) == trim(RemoveLanguageTags(fullText))

\* setAiState(v), the render it causes and the effect of lines 281-321, whose
\* dependency is aiState: when aiState changes, a new SpeechRecognition
\* closing over the new value replaces recognition.current; the object it
\* replaces keeps running if it was started.
setAiState(c, v) ==
    IF c.aiState = v THEN c
    ELSE [c EXCEPT !.aiState = v,
                   !.running = IF c.recognition.state = "off"
                               THEN @ ELSE @ \cup {c.recognition},
                   !.recognition = SpeechRecognition(v)]

\* try { recognition.current.start(); } catch(e) {}
start(c) ==
    IF c.recognition.state = "off" THEN [c EXCEPT !.recognition.state = "on"] ELSE c

\* recognition.current.stop()
stop(c) ==
    IF c.recognition.state = "on"
    THEN [c EXCEPT !.recognition.state = "stopping"] ELSE c

\* recognition.current.onstart (lines 287-289)
onstart(c) == IF c.isConversationActive THEN setAiState(c, "listening") ELSE c

\* synth.cancel(): the utterance being spoken is dropped; the browser may
\* or may not deliver its end event afterwards.
cancel(c, ends) ==
    IF c.speaking = "yes"
    THEN [c EXCEPT !.speaking = IF ends THEN "cancelled" ELSE "no"] ELSE c

\* A handler that calls recognition.current.start() and setAiState(v): the
\* object started is the one current when the handler ran, the effect
\* replaces it afterwards, and its start event follows.
StartThen(c, v) ==
    LET started == c.recognition.state = "off"
        c1 == setAiState(start(c), v)
    IN  IF started THEN onstart(c1) ELSE c1

\* The recognition objects that can deliver events.
Recognizers(c) ==
    c.running \cup (IF c.recognition.state = "off" THEN {} ELSE {c.recognition})

\* The frame of the actions of the App that send nothing.
ServerUnchanged ==
    UNCHANGED <<local_memory, pc, sock, biz, inbox, user_text, full_resp, request,
                streamed, sent, flags, raised, nconns, nturns, ntokens>>

\* toggleConversation (lines 373-386)
toggleConversation ==
    /\ IF client.isConversationActive
       THEN \E ends \in BOOLEAN :
              client' = setAiState(
                           cancel(stop([client EXCEPT !.isConversationActive = FALSE]),
                                  ends),
                           "idle")
       ELSE client' = StartThen([client EXCEPT !.isConversationActive = TRUE],
                                "listening")
    /\ ServerUnchanged

\* recognition.onresult of a running object with a final phrase (lines
\* 297-319), handleUserSilence arming the timer (lines 325-328).
onresult(r, text) ==
    /\ r \in Recognizers(client)
    /\ \E ends \in BOOLEAN :
         LET c1 == IF client.speaking = "yes"
                   THEN setAiState(cancel(client, ends), "listening")
                   ELSE client
         IN  client' = [c1 EXCEPT !.silenceTimer = [armed |-> TRUE, text |-> text]]
    /\ ServerUnchanged

\* The callback of silenceTimer (lines 328-335) on the socket of a.
silenceTimeout(a) ==
    /\ client.silenceTimer.armed
    /\ Live(a)
    /\ sock[a] = "open"
    /\ LET text == client.silenceTimer.text
           c0 == [client EXCEPT !.silenceTimer = NoTimer]
       IN  IF Len(trim(text)) > 1
           THEN /\ client' = setAiState(stop(c0), "thinking")
                /\ inbox' = [inbox EXCEPT ![a] = Append(@, text)]
           ELSE /\ client' = c0
                /\ UNCHANGED inbox
    /\ UNCHANGED <<local_memory, pc, sock, biz, user_text, full_resp, request,
                   streamed, sent, flags, raised, nconns, nturns, ntokens>>

\* How many messages of the current turn of a the message handler has seen.
Seen(a) == IF client.turn = nturns THEN client.seen ELSE 0

\* speakResponse (lines 339-371): nothing happens when the text to speak
\* is empty, else the utterance is handed to the synthesis.
speakResponse(c, fullText) ==
    IF textToSpeak(fullText) = <<>> THEN c ELSE [c EXCEPT !.speaking = "yes"]

\* ws.current.onmessage for the next message of the turn (lines 263-273).
onmessage(a) ==
    /\ Seen(a) < Len(sent[a])
    /\ LET data == sent[a][Seen(a) + 1]
           c0 == [client EXCEPT !.turn = nturns, !.seen = Seen(a) + 1]
       IN  client' = IF data.type = "chunk"
                     THEN setAiState(c0, "speaking")
                     ELSE speakResponse(c0, data.full_text)
    /\ ServerUnchanged

\* utterance.onend (lines 363-368): the speech is over, or a cancelled
\* utterance delivers its end event.
utterance_onend ==
    /\ client.speaking \in {"yes", "cancelled"}
    /\ LET c0 == [client EXCEPT !.speaking = "no"]
       IN  client' = IF c0.isConversationActive
                     THEN StartThen(c0, "listening")
                     ELSE setAiState(c0, "listening")
    /\ ServerUnchanged

\* recognition.onend of the object r (lines 291-296): it was stopped, or the
\* browser ended the recognition by itself.  Its handler tests the aiState
\* it closed over and starts recognition.current.
onend(r) ==
    /\ r \in Recognizers(client)
    /\ LET c0 == IF r = client.recognition
                 THEN [client EXCEPT !.recognition.state = "off"]
                 ELSE [client EXCEPT !.running = @ \ {r}]
       IN  client' = IF c0.isConversationActive /\ r.aiState = "listening"
                     THEN StartThen(c0, c0.aiState)
                     ELSE c0
    /\ ServerUnchanged

(***************************************************************************)
(* 6. WEBSOCKET: websocket_endpoint                                        *)
(***************************************************************************)
\* await websocket.accept(); session_id = str(id(websocket)).  The new
\* websocket object lives at an address no live object occupies.
Accept(a, business_id) ==
    /\ ~Live(a)
    /\ pc' = [pc EXCEPT ![a] = "recv"]
    /\ sock' = [sock EXCEPT ![a] = "open"]
    /\ biz' = [biz EXCEPT ![a] = business_id]
    /\ inbox' = [inbox EXCEPT ![a] = <<>>]
    /\ user_text' = [user_text EXCEPT ![a] = <<>>]
    /\ full_resp' = [full_resp EXCEPT ![a] = <<>>]
    /\ request' = [request EXCEPT ![a] = <<>>]
    /\ streamed' = [streamed EXCEPT ![a] = <<>>]
    /\ sent' = [sent EXCEPT ![a] = <<>>]
    /\ flags' = [flags EXCEPT ![a] = NoFlags]
    /\ raised' = [raised EXCEPT ![a] = NoExc]
    /\ nconns' = nconns + 1
    /\ UNCHANGED <<local_memory, nturns, ntokens, client>>

\* CanReceive with every turn run as a task of its own, the loop going
\* straight back to receive_text.
CanReceive_spawned(a) == pc[a] \in {"recv", "stream"}

\* The loop of websocket_endpoint is at receive_text: stream_conversation is
\* awaited (line 163) before the next message is read.
CanReceive(a) == pc[a] = "recv"

\* data = await websocket.receive_text(); if not data.strip(): continue
ReceiveBlank(a) ==
    /\ CanReceive(a)
    /\ inbox[a] # <<>>
    /\ strip(Head(inbox[a])) = <<>>
    /\ inbox' = [inbox EXCEPT ![a] = Tail(@)]
    /\ flags' = [flags EXCEPT ![a].ignored = TRUE]
    /\ UNCHANGED <<local_memory, pc, sock, biz, user_text, full_resp, request,
                   streamed, sent, raised, nconns, nturns, ntokens, client>>

\* data = await websocket.receive_text(), non-blank: stream_conversation is
\* entered and runs up to the outbound request (lines 86-125).
ReceiveUtterance(a) ==
    /\ CanReceive(a)
    /\ inbox[a] # <<>>
    /\ strip(Head(inbox[a])) # <<>>
    /\ LET data == Head(inbox[a])
           stored == get_chat_history(local_memory, session_id(a))
           history == IF stored = <<>>
                      THEN <<Message("system", system_instruction(biz[a]))>>
                      ELSE stored
           messages == history \o <<Message("user", data)>>
       IN  /\ user_text' = [user_text EXCEPT ![a] = data]
           /\ request' = [request EXCEPT ![a] = messages]
           /\ flags' = [flags EXCEPT ![a] =
                          [NoFlags EXCEPT !.attempts = 1,
                                          !.first = (request[a] = <<>>),
                                          !.before = stored]]
    /\ inbox' = [inbox EXCEPT ![a] = Tail(@)]
    /\ full_resp' = [full_resp EXCEPT ![a] = <<>>]
    /\ streamed' = [streamed EXCEPT ![a] = <<>>]
    /\ sent' = [sent EXCEPT ![a] = <<>>]
    /\ pc' = [pc EXCEPT ![a] = "stream"]
    /\ nturns' = nturns + 1
    /\ UNCHANGED <<local_memory, sock, biz, raised, nconns, ntokens, client>>

\* receive_text raises WebSocketDisconnect once the client is gone and no
\* message is left; the handler deletes the session (lines 165-166).
ReceiveDisconnect(a) ==
    /\ CanReceive(a)
    /\ inbox[a] = <<>>
    /\ sock[a] # "open"
    /\ local_memory' = delete_session(local_memory, session_id(a))
    /\ pc' = [pc EXCEPT ![a] = "closed"]
    /\ raised' = [raised EXCEPT ![a] =
                     [from |-> "receive_text", type |-> "WebSocketDisconnect"]]
    /\ UNCHANGED <<sock, biz, inbox, user_text, full_resp, request, streamed,
                   sent, flags, nconns, nturns, ntokens, client>>

(***************************************************************************)
(* 5. STREAMING LOGIC: stream_conversation                                 *)
(***************************************************************************)
\* SentChunk sending the text accumulated so far instead of the token.
SentChunk_accumulated(a, word) == ChunkMsg(full_resp[a] \o word)

\* The chunk message sent for a token (line 133).
SentChunk(a, word) == ChunkMsg(word)

\* The loop is left, by break or by the end of the stream, and the two
\* "async with" blocks are left without an exception.
LeaveLoop(a) ==
    /\ pc' = [pc EXCEPT ![a] = "save"]
    /\ flags' = [flags EXCEPT ![a].completed = TRUE]

\* One iteration of "async for line in response.aiter_lines()" (126-135).
\* The inner "except: pass" swallows whatever the body raises, the failure
\* of send_json included, and the done test is then skipped.
StreamLine(a, line) ==
    /\ pc[a] = "stream"
    /\ IF line.kind = "empty"
       THEN UNCHANGED <<full_resp, streamed, sent, sock, flags, pc>>
       ELSE IF line.kind = "bad"
       THEN /\ flags' = [flags EXCEPT ![a].malformed = TRUE]
            /\ UNCHANGED <<full_resp, streamed, sent, sock, pc>>
       ELSE IF has_content(line)
       THEN /\ full_resp' = [full_resp EXCEPT ![a] = @ \o line.content]
            /\ streamed' = [streamed EXCEPT ![a] = Append(@, line.content)]
            /\ \E o \in SendResults(sock[a], line.content) :
                 IF o = "ok"
                 THEN /\ sent' = [sent EXCEPT ![a] = Append(@, SentChunk(a, line.content))]
                      /\ IF line.done THEN LeaveLoop(a) ELSE UNCHANGED <<pc, flags>>
                      /\ UNCHANGED sock
                 ELSE /\ sock' = [sock EXCEPT ![a] =
                                   IF o = "raise" THEN "broken" ELSE @]
                      /\ UNCHANGED <<sent, pc, flags>>
       ELSE /\ IF line.done THEN LeaveLoop(a) ELSE UNCHANGED <<pc, flags>>
            /\ UNCHANGED <<full_resp, streamed, sent, sock>>
    /\ ntokens' = IF has_content(line) THEN ntokens + 1 ELSE ntokens
    /\ UNCHANGED <<local_memory, biz, inbox, user_text, request, raised,
                   nconns, nturns, client>>

\* The response stream ends: the loop is left without a done marker.
StreamEnd(a) ==
    /\ pc[a] = "stream"
    /\ LeaveLoop(a)
    /\ UNCHANGED <<local_memory, sock, biz, inbox, user_text, full_resp, request,
                   streamed, sent, raised, nconns, nturns, ntokens, client>>

\* TransportError with the request issued once more after a failure.
TransportError_retry(a) ==
    /\ pc[a] = "stream"
    /\ flags' = [flags EXCEPT ![a].failed = TRUE, ![a].attempts = @ + 1]
    /\ pc' = [pc EXCEPT ![a] = IF flags[a].attempts < 2 THEN "stream" ELSE "except"]
    /\ UNCHANGED <<local_memory, sock, biz, inbox, user_text, full_resp, request,
                   streamed, sent, raised, nconns, nturns, ntokens, client>>

\* httpx raises inside the try block: connect failure, timeout, or a
\* transport error while the stream is read (lines 110-126).
TransportError(a) ==
    /\ pc[a] = "stream"
    /\ flags' = [flags EXCEPT ![a].failed = TRUE]
    /\ pc' = [pc EXCEPT ![a] = "except"]
    /\ UNCHANGED <<local_memory, sock, biz, inbox, user_text, full_resp, request,
                   streamed, sent, raised, nconns, nturns, ntokens, client>>

\* TurnPair with the reply saved before the utterance.
TurnPair_swapped(text, reply) == <<Message("assistant", reply), Message("user", text)>>

\* The messages saved after the loop (lines 138-141).
TurnPair(text, reply) == <<Message("user", text), Message("assistant", reply)>>

\* TurnEnd carrying only the last token read.
TurnEnd_last_word(a) ==
    EndMsg(IF streamed[a] = <<>> THEN <<>> ELSE streamed[a][Len(streamed[a])])

\* A suggestion tag <<option|option>> at the end of text: the index of its
\* first character, or 0 when text does not end with one.
SuggestionTag(text) ==
    LET n == Len(text)
        S == {i \in 1..(n - 4) :
                 /\ text[i] = "<" /\ text[i + 1] = "<"
                 /\ text[n - 1] = ">" /\ text[n] = ">"
                 /\ \E k \in (i + 2)..(n - 2) : text[k] = "|"}
    IN  IF S = {} THEN 0 ELSE CHOOSE i \in S : \A j \in S : j <= i

EndsWithSuggestionTag(text) == SuggestionTag(text) # 0

\* text without the suggestion tag at its end.
StripSuggestionTag(text) ==
    IF EndsWithSuggestionTag(text)
    THEN rstrip(SubSeq(text, 1, SuggestionTag(text) - 1))
    ELSE text

\* TurnEnd with the suggestion tag cut off the reply.
TurnEnd_stripped(a) == EndMsg(StripSuggestionTag(full_resp[a]))

\* The end message of a turn (line 144).
TurnEnd(a) == EndMsg(full_resp[a])

\* Lines 137-144: save the history, then signal the end of the turn.  A
\* raising send_json is caught by the except clause of line 146.
Save(a) ==
    /\ pc[a] = "save"
    /\ local_memory' = update_chat_history(local_memory, session_id(a),
                                           TurnPair(user_text[a], full_resp[a]))
    /\ \E o \in SendResults(sock[a], TurnEnd(a).full_text) :
         IF o = "ok"
         THEN /\ sent' = [sent EXCEPT ![a] = Append(@, TurnEnd(a))]
              /\ pc' = [pc EXCEPT ![a] = "recv"]
              /\ UNCHANGED sock
         ELSE /\ sock' = [sock EXCEPT ![a] = IF o = "raise" THEN "broken" ELSE @]
              /\ pc' = [pc EXCEPT ![a] = "except"]
              /\ UNCHANGED sent
    /\ UNCHANGED <<biz, inbox, user_text, full_resp, request, streamed, flags,
                   raised, nconns, nturns, ntokens, client>>

\* HandlerText ending the turn with the partial reply instead of the phrase.
HandlerText_partial(a) == full_resp[a]

\* The text of the two messages of the except handler (lines 148-150).
HandlerText(a) == err

\* An exception leaves stream_conversation and then websocket_endpoint, whose
\* only except clause is "except WebSocketDisconnect" (lines 165-166).
Propagate(a, type) ==
    /\ local_memory' = IF type = "WebSocketDisconnect"
                       THEN delete_session(local_memory, session_id(a))
                       ELSE local_memory
    /\ pc' = [pc EXCEPT ![a] = "closed"]
    /\ raised' = [raised EXCEPT ![a] = [from |-> "stream_conversation", type |-> type]]

\* The except handler (lines 146-150): two sends, neither of them guarded.
Except(a) ==
    /\ pc[a] = "except"
    /\ \E o1 \in SendResults(sock[a], HandlerText(a)) :
         IF o1 # "ok"
         THEN /\ \E type \in SendExceptions(sock[a], o1) : Propagate(a, type)
              /\ sock' = [sock EXCEPT ![a] = IF o1 = "raise" THEN "broken" ELSE @]
              /\ UNCHANGED sent
         ELSE \E o2 \in SendResults(sock[a], HandlerText(a)) :
                IF o2 # "ok"
                THEN /\ \E type \in SendExceptions(sock[a], o2) : Propagate(a, type)
                     /\ sock' = [sock EXCEPT ![a] = IF o2 = "raise" THEN "broken" ELSE @]
                     /\ sent' = [sent EXCEPT ![a] = Append(@, ChunkMsg(HandlerText(a)))]
                ELSE /\ sent' = [sent EXCEPT ![a] =
                                   @ \o <<ChunkMsg(HandlerText(a)), EndMsg(HandlerText(a))>>]
                     /\ pc' = [pc EXCEPT ![a] = "recv"]
                     /\ UNCHANGED <<local_memory, sock, raised>>
    /\ UNCHANGED <<biz, inbox, user_text, full_resp, request, streamed,
                   flags, nconns, nturns, ntokens, client>>

(***************************************************************************)
(* The environment of Spec: what clients and the endpoint may do.          *)
(***************************************************************************)
BusinessIds == {"dentist", "pets"}
Utterances == {<<>>, <<" ">>, <<"h", "i">>}
Words == {<<"o", "k">>, <<".">>, <<LoneSurrogate>>}
Lines ==
    {EmptyLine, BadLine}
        \cup {TokenLine(w, d) : w \in Words, d \in BOOLEAN}
        \cup {PlainLine(d) : d \in BOOLEAN}

\* Spec: one address, connections following each other on it.
SpecAddr == {1}

Next ==
    \E a \in SpecAddr :
        \/ nconns < MaxConns /\ \E b \in BusinessIds : Accept(a, b)
        \/ Len(inbox[a]) < MaxInbox /\ \E u \in Utterances : ClientSend(a, u)
        \/ ClientDisconnect(a)
        \/ ReceiveBlank(a)
        \/ nturns < MaxTurns /\ ReceiveUtterance(a)
        \/ ReceiveDisconnect(a)
        \/ \E l \in Lines :
              /\ has_content(l) => ntokens < MaxTokens
              /\ StreamLine(a, l)
        \/ StreamEnd(a)
        \/ TransportError(a)
        \/ Save(a)
        \/ Except(a)

Spec == Init /\ [][Next]_vars

(***************************************************************************)
(* The environment of SpecLong: one connection that stays open for many    *)
(* turns, each answered by at most one token, ended or failed.             *)
(***************************************************************************)
LongUtterances == {<<"h", "i">>, <<"y", "o">>}
LongLines == {TokenLine(<<"o", "k">>, TRUE)}

NextLong ==
    \E a \in SpecAddr :
        \/ nconns < 1 /\ Accept(a, "marketing")
        \/ pc[a] = "recv" /\ inbox[a] = <<>> /\ \E u \in LongUtterances : ClientSend(a, u)
        \/ nturns < MaxLongTurns /\ ReceiveUtterance(a)
        \/ \E l \in LongLines : StreamLine(a, l)
        \/ StreamEnd(a)
        \/ TransportError(a)
        \/ Save(a)
        \/ Except(a)

SpecLong == Init /\ [][NextLong]_vars

(***************************************************************************)
(* The environment of SpecTag: one connection that stays open, replies of  *)
(* up to MaxTagTokens tokens that carry language and suggestion tags.      *)
(***************************************************************************)
TagWords ==
    { <<"h", "i", " ">>, <<"[", "E", "S", "]">>,
      <<"<", "<", "y">>, <<"|", "n", ">", ">">> }
TagLines == {TokenLine(w, d) : w \in TagWords, d \in BOOLEAN}

NextTag ==
    \E a \in SpecAddr :
        \/ nconns < 1 /\ Accept(a, "marketing")
        \/ pc[a] = "recv" /\ inbox[a] = <<>> /\ ClientSend(a, <<"h", "i">>)
        \/ nturns < MaxTurns /\ ReceiveUtterance(a)
        \/ \E l \in TagLines : ntokens < MaxTagTokens /\ StreamLine(a, l)
        \/ StreamEnd(a)
        \/ TransportError(a)
        \/ Save(a)
        \/ Except(a)

SpecTag == Init /\ [][NextTag]_vars

(***************************************************************************)
(* The environment of SpecClient: the App on one connection that stays     *)
(* open.  The user speaks phrases while a recognition object runs, as long *)
(* as the utterances sent stay within MaxTurns; the endpoint answers with  *)
(* tokens, with a language tag alone, with no token at all, or fails.      *)
(***************************************************************************)
Phrases == {<<"h", "i">>, <<"a">>}
ClientLines ==
    {TokenLine(<<"o", "k">>, TRUE), TokenLine(<<"[", "E", "S", "]">>, TRUE)}

\* The steps of the endpoint and of the server on the connection of a; the
\* next utterance is received after the messages of the turn have arrived.
ServerStep(a) ==
    \/ nturns < MaxTurns /\ Seen(a) = Len(sent[a]) /\ ReceiveUtterance(a)
    \/ \E l \in ClientLines : ntokens < MaxTokens /\ StreamLine(a, l)
    \/ StreamEnd(a)
    \/ Save(a)
    \/ Except(a)

NextClient ==
    \E a \in SpecAddr :
        \/ nconns < 1 /\ Accept(a, "marketing")
        \/ toggleConversation
        \/ \E r \in Recognizers(client), text \in Phrases :
              nturns + Len(inbox[a]) < MaxTurns /\ onresult(r, text)
        \/ silenceTimeout(a)
        \/ onmessage(a)
        \/ utterance_onend
        \/ \E r \in Recognizers(client) : onend(r)
        \/ TransportError(a)
        \/ ServerStep(a)

\* What the scheduling guarantees: the event loops of the server and of
\* the browser run every handler that is ready, a stream comes to its end,
\* a spoken utterance ends, and a stopped recognition delivers its end.
Fairness ==
    \A a \in SpecAddr :
        /\ WF_vars(ServerStep(a))
        /\ WF_vars(silenceTimeout(a))
        /\ WF_vars(onmessage(a))
        /\ WF_vars(utterance_onend)
        /\ WF_vars(\E r \in Recognizers(client) : r.state = "stopping" /\ onend(r))

SpecClient == Init /\ [][NextClient]_vars /\ Fairness


(***************************************************************************)
(* Vocabulary of the properties.                                           *)
(***************************************************************************)
\* The concatenation of a sequence of texts.
RECURSIVE Concat(_)
Concat(texts) ==
    IF texts = <<>> THEN <<>> ELSE Head(texts) \o Concat(Tail(texts))

IsChunk(m) == m.type = "chunk"
IsEnd(m) == m.type = "end"

\* The contents of the chunk messages among msgs, in emission order.
ChunkContents(msgs) ==
    LET chunks == SelectSeq(msgs, IsChunk)
    IN  [i \in 1..Len(chunks) |-> chunks[i].content]

\* The full_text of the end messages among msgs.
EndTexts(msgs) ==
    LET ends == SelectSeq(msgs, IsEnd)
    IN  [i \in 1..Len(ends) |-> ends[i].full_text]

\* stream_conversation has returned to the loop of websocket_endpoint.
TurnReturned(a) == pc[a] = "recv" /\ request[a] # <<>>

\* The turn has returned after the except handler sent the fallback phrase.
FallbackDelivered(a) ==
    /\ TurnReturned(a)
    /\ Len(sent[a]) >= 2
    /\ sent[a][Len(sent[a]) - 1] = ChunkMsg(err)
    /\ sent[a][Len(sent[a])] = EndMsg(err)

\* The full_text of the last message sent in the turn, its end message.
LastEndText(a) == sent[a][Len(sent[a])].full_text

Stored(a) == session_id(a) \in DOMAIN local_memory
History(a) == local_memory[session_id(a)]

(***************************************************************************)
(* C1.  The history stored for a session never has more than 13 entries,   *)
(* after any number of successful and failed turns.                        *)
(***************************************************************************)
C1_HistoryBounded ==
    \A sid \in DOMAIN local_memory : Len(local_memory[sid]) <= WindowLimit

\* A session at the bound, already truncated (an odd length only arises by
\* truncation), whose latest turn failed.
C1_Witness ==
    \E a \in Addr :
        /\ Stored(a)
        /\ Len(History(a)) = WindowLimit
        /\ TurnReturned(a)
        /\ flags[a].failed

(***************************************************************************)
(* C2.  Whenever a session has a stored history, its first entry is the    *)
(* system message.                                                         *)
(***************************************************************************)
C2_SystemFirst ==
    \A sid \in DOMAIN local_memory :
        local_memory[sid] # <<>> => local_memory[sid][1].role = "system"

(***************************************************************************)
(* C3.  On every turn the message list sent to the endpoint starts with    *)
(* the system message of the connection's business prompt and ends with    *)
(* the new user utterance.                                                 *)
(***************************************************************************)
C3_RequestIsFullList ==
    \A a \in Addr :
        (Live(a) /\ request[a] # <<>>) =>
            /\ Head(request[a]) = Message("system", system_instruction(biz[a]))
            /\ request[a][Len(request[a])] = Message("user", user_text[a])

(***************************************************************************)
(* C4.  If the outbound call fails, the full_text of the turn's end        *)
(* message is exactly the fallback phrase; a failed turn that returns has  *)
(* sent that end message last.                                             *)
(***************************************************************************)
C4_FailureGivesFallback ==
    \A a \in Addr :
        flags[a].failed =>
            /\ \A i \in DOMAIN EndTexts(sent[a]) : EndTexts(sent[a])[i] = err
            /\ TurnReturned(a) =>
                  /\ sent[a] # <<>>
                  /\ sent[a][Len(sent[a])] = EndMsg(err)

\* A transport error after some tokens were streamed, the turn returned.
C4_Witness ==
    \E a \in Addr :
        /\ flags[a].failed
        /\ streamed[a] # <<>>
        /\ TurnReturned(a)
        /\ EndTexts(sent[a]) = <<err>>

(***************************************************************************)
(* C5.  stream_conversation never raises to its caller, whatever the       *)
(* outbound call and the sends to the client do.                           *)
(***************************************************************************)
C5_NeverRaises ==
    \A a \in Addr : raised[a].from # "stream_conversation"

(***************************************************************************)
(* C6.  For a non-empty utterance the full_text of the end message is a    *)
(* non-empty string.                                                       *)
(***************************************************************************)
C6_ReplyNonEmpty ==
    \A a \in Addr :
        \A i \in DOMAIN EndTexts(sent[a]) : EndTexts(sent[a])[i] # <<>>

(***************************************************************************)
(* C7.  After a turn whose outbound call succeeds (the response stream was *)
(* read to its end or to its done marker), the stored history of the       *)
(* session ends with the user message of the utterance followed by the     *)
(* assistant message holding the concatenation of the streamed tokens.     *)
(***************************************************************************)
C7_PairStored ==
    \A a \in Addr :
        (flags[a].completed /\ pc[a] \in {"recv", "except"}) =>
            /\ Stored(a)
            /\ Len(History(a)) >= 2
            /\ LastEntries(History(a), 2) =
                  << Message("user", user_text[a]),
                     Message("assistant", Concat(streamed[a])) >>

\* A second successful turn of two different tokens.
C7_Witness ==
    \E a \in Addr :
        /\ flags[a].completed
        /\ TurnReturned(a)
        /\ Len(streamed[a]) = 2
        /\ streamed[a][1] # streamed[a][2]
        /\ Len(History(a)) = 4

(***************************************************************************)
(* C8.  Once a connection has ended, local_memory holds no entry for its   *)
(* session id.                                                             *)
(***************************************************************************)
C8_DestroyedOnDisconnect ==
    \A a \in Addr : pc[a] = "closed" => ~Stored(a)

(***************************************************************************)
(* C9.  A turn that received a malformed line returns the fallback phrase  *)
(* to the client.                                                          *)
(***************************************************************************)
C9_MalformedGivesFallback ==
    \A a \in Addr :
        (flags[a].malformed /\ TurnReturned(a)) =>
            /\ sent[a] # <<>>
            /\ sent[a][Len(sent[a])] = EndMsg(err)

(***************************************************************************)
(* C10.  In its general form: at the end of every turn, the concatenation  *)
(* of the contents of the chunk messages sent in the turn is the streamed  *)
(* text.                                                                   *)
(***************************************************************************)
C10_RoundTripEveryTurn ==
    \A a \in Addr :
        TurnReturned(a) => Concat(ChunkContents(sent[a])) = Concat(streamed[a])

(***************************************************************************)
(* C10, amended.  While the outbound call has not failed and no send to    *)
(* the client has raised, the chunk messages sent in the turn are the      *)
(* streamed tokens, one chunk per token in order, so that their            *)
(* concatenation is the streamed text.                                     *)
(***************************************************************************)
C10_RoundTrip ==
    \A a \in Addr :
        (Live(a) /\ ~flags[a].failed /\ sock[a] # "broken"
                 /\ Encodable(full_resp[a])) =>
            /\ ChunkContents(sent[a]) = streamed[a]
            /\ Concat(ChunkContents(sent[a])) = full_resp[a]

\* A successful turn of two different tokens, both delivered.
C10_Witness ==
    \E a \in Addr :
        /\ TurnReturned(a)
        /\ ~flags[a].failed
        /\ sock[a] = "open"
        /\ Len(streamed[a]) = 2
        /\ streamed[a][1] # streamed[a][2]
        /\ Len(ChunkContents(sent[a])) = 2


(***************************************************************************)
(* C11.  The messages sent in a turn are zero or more chunk messages       *)
(* followed by at most one end message, nothing after it; a turn that has  *)
(* returned has sent exactly one end message, as its last message.         *)
(***************************************************************************)
C11_ChunksThenOneEnd ==
    \A a \in Addr :
        /\ \A i \in 1..(Len(sent[a]) - 1) : IsChunk(sent[a][i])
        /\ TurnReturned(a) =>
              /\ sent[a] # <<>>
              /\ IsEnd(sent[a][Len(sent[a])])
              /\ Len(SelectSeq(sent[a], IsEnd)) = 1

\* A failed turn on an open connection: a token, the fallback chunk, the end.
C11_Witness ==
    \E a \in Addr :
        /\ TurnReturned(a)
        /\ sock[a] = "open"
        /\ flags[a].failed
        /\ Len(sent[a]) = 3

(***************************************************************************)
(* C12.  The outbound request of an utterance is issued only when no turn  *)
(* of the connection is in progress: either the connection has had no turn *)
(* yet or the end message of the previous turn was the last message sent.  *)
(***************************************************************************)
PreviousTurnEnded(a) ==
    \/ request[a] = <<>>
    \/ /\ pc[a] = "recv"
       /\ sent[a] # <<>>
       /\ IsEnd(sent[a][Len(sent[a])])

C12_NoPipelining ==
    [][\A a \in Addr :
          (Live(a) /\ nturns' = nturns + 1 /\ Len(inbox'[a]) < Len(inbox[a]))
              => PreviousTurnEnded(a)]_vars

\* The client has sent the next utterance while the turn is streaming.
C12_Witness ==
    \E a \in Addr :
        /\ pc[a] = "stream"
        /\ sent[a] # <<>>
        /\ inbox[a] # <<>>
        /\ strip(Head(inbox[a])) # <<>>

(***************************************************************************)
(* C13.  Every turn issues exactly one outbound request, also when that    *)
(* request fails.                                                          *)
(***************************************************************************)
C13_NoRetry ==
    \A a \in Addr : request[a] # <<>> => flags[a].attempts = 1

\* A turn whose request failed after a token, handled and returned.
C13_Witness ==
    \E a \in Addr :
        /\ TurnReturned(a)
        /\ flags[a].failed
        /\ streamed[a] # <<>>
        /\ flags[a].attempts = 1


(***************************************************************************)
(* C14.  In the form of sentence chunking: every chunk message of a turn   *)
(* except possibly the last ends in terminal punctuation.                  *)
(***************************************************************************)
TerminalPunctuation == {".", "!", "?", ":", ";"}

EndsSentence(text) == text # <<>> /\ text[Len(text)] \in TerminalPunctuation

ReplyReturned(a) == TurnReturned(a) /\ flags[a].completed /\ ~FallbackDelivered(a)

C16_FailedTurnUnrecorded ==
    \A a \in Addr :
        FallbackDelivered(a) =>
            get_chat_history(local_memory, session_id(a)) = flags[a].before

(***************************************************************************)
(* C17.  In every turn, successful or failed, the full_text of the end     *)
(* message is the concatenation, in order, of the contents of the chunk    *)
(* messages sent during the turn.                                          *)
(***************************************************************************)
C17_EndIsConcatEveryTurn ==
    \A a \in Addr :
        TurnReturned(a) => LastEndText(a) = Concat(ChunkContents(sent[a]))

(***************************************************************************)
(* C17, amended.  In a turn that ends with the reply, the full_text of the *)
(* end message is the concatenation of the contents of the chunk messages  *)
(* of the turn; in a turn that ends with the fallback phrase it is the     *)
(* content of the last chunk message alone, the phrase, whatever chunks    *)
(* were sent before it.                                                    *)
(***************************************************************************)
C17_EndMatchesChunks ==
    \A a \in Addr :
        TurnReturned(a) =>
            LET chunks == ChunkContents(sent[a])
            IN  IF FallbackDelivered(a)
                THEN /\ LastEndText(a) = err
                     /\ chunks[Len(chunks)] = err
                ELSE LastEndText(a) = Concat(chunks)

\* A turn that failed after one token had been sent as a chunk.
C17_Witness ==
    \E a \in Addr :
        /\ FallbackDelivered(a)
        /\ flags[a].failed
        /\ Len(ChunkContents(sent[a])) = 2
        /\ LastEndText(a) # Concat(ChunkContents(sent[a]))

(***************************************************************************)
(* C18.  Sessions are isolated, session ids recurring after a connection   *)
(* has ended included: the first outbound request of a connection is       *)
(* exactly the system message followed by its first utterance, with        *)
(* nothing of an earlier connection in it.                                 *)
(***************************************************************************)
C18_FirstRequestIsFresh ==
    \A a \in Addr :
        (Live(a) /\ request[a] # <<>> /\ flags[a].first) =>
            request[a] = << Message("system", system_instruction(biz[a])),
                            Message("user", user_text[a]) >>

(***************************************************************************)
(* C19.  In every message list sent to the endpoint no two consecutive     *)
(* messages have the same role, and the list ends with the user message of *)
(* the new utterance, after any number of turns and truncations.           *)
(***************************************************************************)
C19_RolesAlternate ==
    \A a \in Addr :
        request[a] # <<>> =>
            /\ request[a][Len(request[a])].role = "user"
            /\ \A i \in 1..(Len(request[a]) - 1) :
                   request[a][i].role # request[a][i + 1].role

(***************************************************************************)
(* C20.  update_chat_history computes the window exactly: with H the       *)
(* stored history and M the new messages, the stored result is H followed  *)
(* by M when that has at most 13 entries, and otherwise the first entry of *)
(* that list followed by its last 12 entries in their order; the 6 most    *)
(* recent pairs of a user and an assistant message are retained.           *)
(***************************************************************************)
WindowOf(HM, N) ==
    IF Len(HM) <= 13
    THEN N = HM
    ELSE /\ Len(N) = 13
         /\ N[1] = HM[1]
         /\ \A i \in 1..12 : N[1 + i] = HM[Len(HM) - 12 + i]

RecentPairsKept(HM, N) ==
    \A k \in 1..6 :
        2 * k <= Len(HM) =>
            /\ 2 * k <= Len(N)
            /\ N[Len(N) - 2 * k + 1] = HM[Len(HM) - 2 * k + 1]
            /\ N[Len(N) - 2 * k + 2] = HM[Len(HM) - 2 * k + 2]
            /\ N[Len(N) - 2 * k + 1].role = "user"
            /\ N[Len(N) - 2 * k + 2].role = "assistant"

C20_WindowExact ==
    [][\A a \in Addr :
          (pc[a] = "save" /\ pc'[a] # "save") =>
              LET H == get_chat_history(local_memory, session_id(a))
                  M == << Message("user", user_text[a]),
                          Message("assistant", full_resp[a]) >>
                  N == get_chat_history(local_memory', session_id(a))
              IN  WindowOf(H \o M, N) /\ RecentPairsKept(H \o M, N)]_vars

\* A history truncated a second time: its pinned first entry is followed
\* by the third turn.
C20_Witness ==
    \E a \in Addr :
        /\ TurnReturned(a)
        /\ flags[a].completed
        /\ Len(flags[a].before) = 13
        /\ Len(History(a)) = 13
        /\ History(a)[1] = flags[a].before[1]
        /\ History(a)[2] = flags[a].before[4]

(***************************************************************************)
(* C21.  An empty or whitespace-only message from the client is ignored:   *)
(* receiving it causes no outbound request, no message to the client and   *)
(* no change of local_memory, and the connection waits for the next        *)
(* message.                                                                *)
(***************************************************************************)
IsBlank(text) == \A i \in 1..Len(text) : text[i] \in {" ", "\t", "\n"}

\* The step in which the endpoint takes the message at the head of the
\* inbox of a.
Received(a) == Live(a) /\ inbox[a] # <<>> /\ inbox'[a] = Tail(inbox[a])

C21_BlankIgnored ==
    [][\A a \in Addr :
          (Received(a) /\ IsBlank(Head(inbox[a]))) =>
              /\ request' = request
              /\ nturns' = nturns
              /\ sent' = sent
              /\ local_memory' = local_memory
              /\ pc'[a] = "recv"
              /\ raised' = raised]_vars

\* A whitespace-only message was received after a completed turn, whose
\* history is still stored and whose messages are the last ones sent.
C21_Witness ==
    \E a \in Addr :
        /\ flags[a].ignored
        /\ flags[a].completed
        /\ pc[a] = "recv"
        /\ Stored(a)
        /\ IsEnd(sent[a][Len(sent[a])])

(***************************************************************************)
(* C22.  While the conversation is active, a client that has sent an       *)
(* utterance and is in the thinking state eventually is in the listening   *)
(* state again with a speech recognition running, whatever end message the *)
(* server sends, one with an empty full_text or with a [..] tag alone      *)
(* included.                                                               *)
(***************************************************************************)
Thinking == client.isConversationActive /\ client.aiState = "thinking"

ListeningAgain ==
    client.aiState = "listening" /\ \E r \in Recognizers(client) : r.state = "on"

C22_ReturnsToListening ==
    Thinking ~> (ListeningAgain \/ ~client.isConversationActive)
====
